---- MODULE Spec2Model ----
(***************************************************************************)
(* ClangDriver (clang_driver.cpp): the asynchronous, multi-stage driver    *)
(* that runs the external compiler front-end (PreProcess -> CreatePCH ->   *)
(* CodeCompletion) and keeps the PCH cache.                                *)
(*                                                                         *)
(* Text (wxString) is a sequence of one-character strings.  The driver's   *)
(* members are the variables m_*; the other variables are the event queue  *)
(* of the event loop and the history the properties are stated over.      *)
(***************************************************************************)
EXTENDS Integers, Sequences, FiniteSets, TLC

\* ------------------------------------------------------------------ bounds
MaxLaunches  == 4   \* processes launched in one behaviour
MaxPipelines == 2   \* accepted top-level requests in one behaviour
MaxQueue     == 2   \* events pending in the event loop
MaxChunks    == 1   \* output chunks one process emits

\* -------------------------------------------------------------- constants
MaxScanLines == 300     \* DoRemoveAllIncludeStatements: if(i >= 300) break
wxNOT_FOUND  == -1
NULL         == 0

CT_PreProcess     == "CT_PreProcess"
CT_CreatePCH      == "CT_CreatePCH"
CT_CodeCompletion == "CT_CodeCompletion"

\* -------------------------------------------------------- wxString helpers
Letters == {"a","b","c","d","e","f","g","h","i","j","k","l","m","n","o","p",
            "q","r","s","t","u","v","w","x","y","z"}
Digits  == {"0","1","2","3","4","5","6","7","8","9"}

\* the character class [a-zA-Z0-9_/\\: \.\+\-] of reIncludeFile
PathChars == Letters \cup Digits \cup {"_", "/", "\\", ":", " ", ".", "+", "-"}

\* wxString::Trim() strips white space
WhiteSpace == {" ", "\t", "\n", "\r"}

EndsWith(s, suf) ==
    /\ Len(s) >= Len(suf)
    /\ SubSeq(s, Len(s) - Len(suf) + 1, Len(s)) = suf

StartsWith(s, pre) ==
    /\ Len(s) >= Len(pre)
    /\ SubSeq(s, 1, Len(pre)) = pre

\* s without its first n characters
Drop(s, n) == SubSeq(s, n + 1, Len(s))

RECURSIVE TrimLeft(_)
TrimLeft(s) ==
    IF s # <<>> /\ Head(s) \in WhiteSpace THEN TrimLeft(Tail(s)) ELSE s

RECURSIVE TrimRight(_)
TrimRight(s) ==
    IF s # <<>> /\ s[Len(s)] \in WhiteSpace
    THEN TrimRight(SubSeq(s, 1, Len(s) - 1)) ELSE s

\* wxString::Trim().Trim(false)
Trim(s) == TrimLeft(TrimRight(s))

\* number of leading characters of s that are in the set cls
RECURSIVE Span(_, _)
Span(s, cls) ==
    IF s # <<>> /\ Head(s) \in cls THEN 1 + Span(Tail(s), cls) ELSE 0

\* the sequences ss[lo], .., ss[hi] put together, by halves
RECURSIVE ConcatRange(_, _, _)
ConcatRange(ss, lo, hi) ==
    IF lo > hi THEN <<>>
    ELSE IF lo = hi THEN ss[lo]
    ELSE ConcatRange(ss, lo, (lo + hi) \div 2)
         \o ConcatRange(ss, (lo + hi) \div 2 + 1, hi)

Concat(ss) == ConcatRange(ss, 1, Len(ss))

Range(s) == {s[i] : i \in 1..Len(s)}

\* wxArrayString::Index(x) == wxNOT_FOUND
NotIn(arr, x) == \A i \in 1..Len(arr) : arr[i] # x

\* number of leading characters of s that are not in the set delims
RECURSIVE SpanNot(_, _)
SpanNot(s, delims) ==
    IF s # <<>> /\ Head(s) \notin delims THEN 1 + SpanNot(Tail(s), delims) ELSE 0

\* the offsets lo..hi of buffer that hold a line break
Breaks(buffer, lo, hi) == {i \in lo..hi : buffer[i] = "\n"}

MinOf(S) == CHOOSE x \in S : \A y \in S : x <= y

MaxOf(S) == CHOOSE x \in S : \A y \in S : x >= y

\* a line break inside buffer[lo..hi] that does not end it, the one next to
\* the middle; 0 when there is none
SplitAt(buffer, lo, hi) ==
    IF Breaks(buffer, (lo + hi) \div 2, hi - 1) # {}
    THEN MinOf(Breaks(buffer, (lo + hi) \div 2, hi - 1))
    ELSE IF Breaks(buffer, lo, (lo + hi) \div 2 - 1) # {}
    THEN MaxOf(Breaks(buffer, lo, (lo + hi) \div 2 - 1))
    ELSE 0

\* the tokens of buffer[lo..hi], where a token starts at lo and one ends at
\* hi: those before and those after the line break m, one token when m is 0
RECURSIVE TokensIn(_, _, _)
TokensSplit(buffer, lo, hi, m) ==
    IF m = 0 THEN <<SubSeq(buffer, lo, hi)>>
    ELSE TokensIn(buffer, lo, m) \o TokensIn(buffer, m + 1, hi)

TokensIn(buffer, lo, hi) == TokensSplit(buffer, lo, hi, SplitAt(buffer, lo, hi))

\* wxStringTokenize(buffer, "\n", wxTOKEN_RET_DELIMS): every token keeps the
\* delimiter that ends it; empty tokens in the middle are returned, a
\* trailing empty token is not, so the tokens concatenate to the buffer.
TokenizeRetDelims(buffer) ==
    IF buffer = <<>> THEN <<>> ELSE TokensIn(buffer, 1, Len(buffer))

\* wxStringTokenize(content, "\n\r", wxTOKEN_STRTOK): tokens between runs of
\* delimiters, no empty token, no delimiter kept.
RECURSIVE TokenizeStrtok(_)
TokenizeStrtok(content) ==
    IF content = <<>> THEN <<>>
    ELSE IF Head(content) \in {"\n", "\r"} THEN TokenizeStrtok(Tail(content))
    ELSE LET n == SpanNot(content, {"\n", "\r"})
         IN  <<SubSeq(content, 1, n)>> \o TokenizeStrtok(Drop(content, n))

\* ------------------------------------------- DoRemoveAllIncludeStatements
kwInclude == <<"i","n","c","l","u","d","e">>

\* reIncludeFile of DoRemoveAllIncludeStatements,
\*   ^[ \t]*#[ \t]*include[ \t]*["<]{1}([a-zA-Z0-9_/\\: \.\+\-]+)[">]{1}
\* matched at the start of line from left to right.  The result is the length
\* of the match and the capture group; the length is 0 when the line does not
\* match.  No part of the pattern can match what the next part needs, so the
\* greedy match is the only one.
Blank == {" ", "\t"}

NoMatch == [len |-> 0, file |-> <<>>]

\* s after its leading blanks
AfterBlank(s) == Drop(s, Span(s, Blank))

\* the capture group, the n leading path characters of r, and the closer
IncludeMatchFile(line, r, n) ==
    IF n > 0 /\ Len(r) > n /\ r[n + 1] \in {"\"", ">"}
    THEN [len |-> Len(line) - Len(r) + n + 1, file |-> SubSeq(r, 1, n)]
    ELSE NoMatch

\* the opener
IncludeMatchOpen(line, r) ==
    IF r # <<>> /\ Head(r) \in {"\"", "<"}
    THEN IncludeMatchFile(line, Tail(r), Span(Tail(r), PathChars))
    ELSE NoMatch

\* the keyword and the blanks after it
IncludeMatchKeyword(line, r) ==
    IF StartsWith(r, kwInclude)
    THEN IncludeMatchOpen(line, AfterBlank(Drop(r, Len(kwInclude))))
    ELSE NoMatch

\* the hash and the blanks after it
IncludeMatchHash(line, r) ==
    IF r # <<>> /\ Head(r) = "#"
    THEN IncludeMatchKeyword(line, AfterBlank(Tail(r)))
    ELSE NoMatch

IncludeMatch(line) == IncludeMatchHash(line, AfterBlank(line))

\* wxFileName(filename).GetFullPath(): the path is split at its separators
\* and put together again; an empty directory component (a doubled
\* separator) is dropped.
RECURSIVE GetFullPath(_)
GetFullPath(filename) ==
    IF Len(filename) < 2 THEN filename
    ELSE IF filename[1] = "/" /\ filename[2] = "/" THEN GetFullPath(Tail(filename))
    ELSE <<filename[1]>> \o GetFullPath(Tail(filename))

\* One turn of the loop of DoRemoveAllIncludeStatements: m is the match of
\* reIncludeFile on curline; what the turn appends to the buffer and to
\* includesRemoved.
StripLine(curline, m) ==
    IF Trim(curline) # <<>> /\ Head(Trim(curline)) = "#" /\ m.len > 0
    THEN [buffer |-> Drop(curline, m.len), removed |-> <<GetFullPath(m.file)>>]
    ELSE [buffer |-> curline, removed |-> <<>>]

\* The loop of DoRemoveAllIncludeStatements over the tokenized lines: only
\* the first MaxScanLines lines are appended to the buffer again; n is the
\* number of turns made.
StripLines(lines, n) ==
    [buffer  |-> ConcatRange([i \in 1..n |->
                     StripLine(lines[i], IncludeMatch(lines[i])).buffer], 1, n),
     removed |-> ConcatRange([i \in 1..n |->
                     StripLine(lines[i], IncludeMatch(lines[i])).removed], 1, n)]

\* the number of turns of the loop before "if(i >= 300) break" ends it
ScannedLines(lines) ==
    IF Len(lines) > MaxScanLines THEN MaxScanLines ELSE Len(lines)

\* buffer and includesRemoved after the call; includesRemoved is appended to
DoRemoveAllIncludeStatements(buffer, includesRemoved) ==
    LET r == StripLines(TokenizeRetDelims(buffer),
                        ScannedLines(TokenizeRetDelims(buffer)))
    IN  [buffer |-> r.buffer, includesRemoved |-> includesRemoved \o r.removed]

\* ------------------------------------------------------ wxFileName helpers
\* index of the last occurrence of character c in s, 0 when there is none
RECURSIVE LastIndexOf(_, _)
LastIndexOf(s, c) ==
    IF s = <<>> THEN 0
    ELSE IF s[Len(s)] = c THEN Len(s)
    ELSE LastIndexOf(SubSeq(s, 1, Len(s) - 1), c)

\* wxFileName::GetFullName(): the part after the last separator
GetFullName(path) == Drop(path, LastIndexOf(path, "/"))

\* wxFileName::GetName(): the full name without its extension
GetName(path) ==
    LET full == GetFullName(path)
        dot  == LastIndexOf(full, ".")
    IN  IF dot > 1 THEN SubSeq(full, 1, dot - 1) ELSE full

\* wxFileName::GetExt()
GetExt(path) ==
    LET full == GetFullName(path)
        dot  == LastIndexOf(full, ".")
    IN  IF dot > 1 THEN Drop(full, dot) ELSE <<>>

\* wxFileName::GetPath(): the directory, without the separator that ends it
GetPath(path) ==
    LET sep == LastIndexOf(path, "/")
    IN  IF sep > 1 THEN SubSeq(path, 1, sep - 1) ELSE SubSeq(path, 1, sep)

\* FileExtManager::GetType(..) is TypeSourceC or TypeSourceCpp
IsSourceFile(path) ==
    GetExt(path) \in {<<"c">>, <<"c","p","p">>, <<"c","x","x">>, <<"c","c">>,
                      <<"c","+","+">>}

\* wxFileName::Normalize(wxPATH_NORM_ALL & ~wxPATH_NORM_LONG, basedir): a
\* relative path is made absolute against basedir (the paths of the model
\* hold no "." or ".." component, environment variable or "~")
Normalize(path, basedir) ==
    IF path # <<>> /\ Head(path) = "/" THEN GetFullPath(path)
    ELSE GetFullPath(basedir \o <<"/">> \o path)

\* ------------------------------------------ DoGetPchHeaderFile and friends
\* ClangPCHCache::GetCacheDirectory()
CacheDirectory == <<"/","t">>

DoGetPchHeaderFile(filename) ==
    CacheDirectory \o <<"/">> \o GetName(filename) \o <<"_","_","H","_","_",".","h">>

DoGetPchOutputFileName(filename) ==
    DoGetPchHeaderFile(filename) \o <<".","p","c","h">>

\* ------------------------------------------- filter word (DoRunCommand)
\* The loop "for(size_t i=currentBuffer.Length() - 1; i>0; i--)": i is always
\* the index of the last character of what is left of currentBuffer, so the
\* loop ends when one character is left or a separator ends the buffer.
\* The buffer is not empty when the loop is entered.
\* the loop with the test for "->" left out
RECURSIVE FilterWordLoop_NoArrow(_, _)
FilterWordLoop_NoArrow(currentBuffer, filterWord) ==
    IF Len(currentBuffer) - 1 > 0
       /\ ~ ( \/ EndsWith(currentBuffer, <<".">>)
              \/ EndsWith(currentBuffer, <<":", ":">>) )
    THEN FilterWordLoop_NoArrow(SubSeq(currentBuffer, 1, Len(currentBuffer) - 1),
                                <<currentBuffer[Len(currentBuffer)]>> \o filterWord)
    ELSE [currentBuffer |-> currentBuffer, filterWord |-> filterWord]

RECURSIVE FilterWordLoop(_, _)
FilterWordLoop(currentBuffer, filterWord) ==
    IF Len(currentBuffer) - 1 > 0
       /\ ~ ( \/ EndsWith(currentBuffer, <<"-", ">">>)
              \/ EndsWith(currentBuffer, <<".">>)
              \/ EndsWith(currentBuffer, <<":", ":">>) )
    THEN FilterWordLoop(SubSeq(currentBuffer, 1, Len(currentBuffer) - 1),
                        <<currentBuffer[Len(currentBuffer)]>> \o filterWord)
    ELSE [currentBuffer |-> currentBuffer, filterWord |-> filterWord]

\* editor->PosFromLine(editor->GetCurrentLine()) for the cursor at the end
\* of text: the offset that follows the last line break
PosFromCurrentLine(text) == LastIndexOf(text, "\n")

\* editor->GetCurrentLine(): zero based
RECURSIVE GetCurrentLine(_)
GetCurrentLine(text) ==
    IF text = <<>> THEN 0
    ELSE (IF Head(text) = "\n" THEN 1 ELSE 0) + GetCurrentLine(Tail(text))

\* DoRunCommand, "line", "column" and the activation position
\* lineStartPos + column - 1 for the cursor at the end of text; lineStartPos
\* is PosFromLine(GetCurrentLine()) and filterWord what the loop collected
LocationOf(text, lineStartPos, filterWord) ==
    [line   |-> GetCurrentLine(text) + 1,
     column |-> Len(text) - lineStartPos + 1 - Len(filterWord),
     pos    |-> lineStartPos
                + (Len(text) - lineStartPos + 1 - Len(filterWord)) - 1]

\* --------------------------------------------- DoFilterIncludeFilesFromPP
\* reIncludeFile of DoFilterIncludeFilesFromPP,
\*   ^#[ \t]*[0-9]+[ \t]*"([a-zA-Z0-9_/\\: \.\+\-]+)"
\* matched at the start of curline from left to right.  The result is the
\* capture group, <<>> when curline does not match (a match captures one
\* character at least).
LineMarkerFile(r, n) ==
    IF n > 0 /\ Len(r) > n /\ r[n + 1] = "\"" THEN SubSeq(r, 1, n) ELSE <<>>

LineMarkerQuote(r) ==
    IF r # <<>> /\ Head(r) = "\""
    THEN LineMarkerFile(Tail(r), Span(Tail(r), PathChars)) ELSE <<>>

LineMarkerNumber(r) ==
    IF Span(r, Digits) > 0
    THEN LineMarkerQuote(AfterBlank(Drop(r, Span(r, Digits)))) ELSE <<>>

LineMarkerMatch(curline) ==
    IF curline # <<>> /\ Head(curline) = "#"
    THEN LineMarkerNumber(AfterBlank(Tail(curline))) ELSE <<>>

\* curline.Replace("\\\\", "\\"): a doubled backslash becomes a single one
RECURSIVE UnescapeBackslashes(_)
UnescapeBackslashes(str) ==
    IF Len(str) < 2 THEN str
    ELSE IF str[1] = "\\" /\ str[2] = "\\"
         THEN <<"\\">> \o UnescapeBackslashes(Drop(str, 2))
         ELSE <<str[1]>> \o UnescapeBackslashes(Tail(str))

\* "includeIt": a source file of the name of the request's file is left out
IncludeIt(path, filename) ==
    ~ ( /\ IsSourceFile(GetFullName(path))
        /\ GetFullName(path) = GetFullName(filename) )

\* includes.Add(fullpath) unless it is there already
AddInclude(includes, fullpath) ==
    IF NotIn(includes, fullpath) THEN Append(includes, fullpath) ELSE includes

\* One turn of the first loop of DoFilterIncludeFilesFromPP: curline is the
\* trimmed line, path the unescaped capture group of its match.
CollectLine(includes, curline, path, filename) ==
    IF curline = <<>> \/ Head(curline) # "#" \/ path = <<>>
       \/ ~IncludeIt(path, filename)
    THEN includes
    ELSE AddInclude(includes, Normalize(path, GetPath(filename)))

\* the first loop of DoFilterIncludeFilesFromPP: the deduplicated list
\* "includes" of the normalized paths of the line markers, the request's own
\* source file left out
RECURSIVE CollectIncludes(_, _, _, _)
CollectIncludes(lines, i, includes, filename) ==
    IF i > Len(lines) THEN includes
    ELSE CollectIncludes(lines, i + 1,
             CollectLine(includes, Trim(lines[i]),
                         UnescapeBackslashes(LineMarkerMatch(Trim(lines[i]))),
                         filename),
             filename)

\* ClangDriver::ShouldInclude
ShouldInclude(header, removedIncludes) ==
    \E i \in 1..Len(removedIncludes) : EndsWith(header, removedIncludes[i])

\* the second loop: the headers that go to m_pchHeaders and to the umbrella
\* header, in the order of "includes"
RECURSIVE SelectHeaders(_, _)
SelectHeaders(includes, removedIncludes) ==
    IF includes = <<>> THEN <<>>
    ELSE (IF ShouldInclude(Head(includes), removedIncludes)
          THEN <<Head(includes)>> ELSE <<>>)
         \o SelectHeaders(Tail(includes), removedIncludes)

\* m_pchHeaders after DoFilterIncludeFilesFromPP, for the content of the
\* preprocessor output file of the file "filename"
DoFilterIncludeFilesFromPP(content, filename, removedIncludes) ==
    SelectHeaders(CollectIncludes(TokenizeStrtok(content), 1, <<>>, filename),
                  removedIncludes)

\* ------------------------------------------------ DoPrepareCompilationArgs
\* a project without a usable build configuration: no build matrix, project
\* not found, no build configuration
NoConf == [found |-> FALSE, custom |-> FALSE, includePath |-> <<>>,
           compileOptions |-> <<>>, preprocessor |-> <<>>]

\* the flags removed from the arguments after they are put together
ProblemFlags == {"-fno-strict-aliasing", "-mthreads", "-pipe",
                 "-fmessage-length=0", "-g", "-fPIC"}

\* GetStandardIncludePathsArgs(): the located paths, "-I" before each
StandardIncludePathsArgs == << <<"-I", "std">> >>

\* m_compilationArgs after the call, a sequence of arguments: <<flag>> or
\* <<"-I", path>> or <<"-D", symbol>>.  conf is what the workspace gives for
\* the project: its selected build configuration.  The compile options of
\* the model hold a problem flag only as a whole option.
DoPrepareCompilationArgs(compilationArgs, conf) ==
    IF compilationArgs # <<>> THEN compilationArgs
    ELSE IF ~conf.found \/ conf.custom THEN compilationArgs
    ELSE StandardIncludePathsArgs
         \o [i \in 1..Len(conf.includePath) |-> <<"-I", conf.includePath[i]>>]
         \o SelectSeq([i \in 1..Len(conf.compileOptions) |-> <<conf.compileOptions[i]>>],
                      LAMBDA a : a[1] \notin ProblemFlags)
         \o [i \in 1..Len(conf.preprocessor) |-> <<"-D", conf.preprocessor[i]>>]

\* ------------------------------------------------------------ PCH cache
\* ClangPCHCache / ClangPCHEntry (clang_pch_cache.h)
NoEntry == [valid |-> FALSE]

\* ClangPCHCache::GetPCH
GetPCH(cache, filename) == cache[filename]

\* ClangPCHEntry::IsValid: the entry exists
IsValid(entry) == entry.valid

\* ClangPCHEntry::NeedRegenration: no entry, or the stripped includes differ
\* in membership from the recorded ones
NeedRegenration(entry, includes) ==
    \/ ~entry.valid
    \/ Range(entry.includes) # Range(includes)

\* ClangPCHCache::AddPCH: replaces any entry of filename.  "by" is history:
\* the process whose termination event was being handled.
AddPCH(cache, filename, pch, includes, headers, by) ==
    [cache EXCEPT ![filename] =
        [valid |-> TRUE, pch |-> pch, includes |-> includes,
         headers |-> headers, by |-> by]]

\* ------------------------------------------------------------ environment
\* IEditor handles; NULL is no editor
Editors == {1, 2}

\* editor->GetFileName().GetFullPath(): a source file and a header file of
\* the same base name in two directories
FileOf(editor) ==
    IF editor = 1 THEN <<"/","p","/","m",".","c","p","p">>
    ELSE <<"/","q","/","m",".","h">>

Files == {FileOf(e) : e \in Editors}

HeaderA == <<"a",".","h">>
HeaderB == <<"b",".","h">>

IncludeLine(name) ==
    <<"#","i","n","c","l","u","d","e"," ","\"">> \o name \o <<"\"","\n">>

\* editor->GetTextRange(0, editor->GetCurrentPosition()): the texts an
\* editor may hold up to the cursor when the driver reads it
TextEmpty == <<>>
TextA     == IncludeLine(HeaderA) \o <<"x",".">>
TextAB    == IncludeLine(HeaderA) \o IncludeLine(HeaderB) \o <<"x",".","f">>
TextBA    == IncludeLine(HeaderB) \o IncludeLine(HeaderA) \o <<"x",".","f">>
Buffers   == {TextEmpty, TextA, TextAB, TextBA}

LineMarker(path) == <<"#"," ","1"," ","\"">> \o path \o <<"\"","\n">>

\* the content of the preprocessor output file <name>__H__.h.1: empty when
\* the file cannot be opened, or line markers of the source file and of two
\* headers and a line of code
PPOutputs ==
    { <<>>,
      LineMarker(FileOf(1)) \o LineMarker(<<"/","i","/">> \o HeaderA)
          \o <<"i","n","t"," ","x",";","\n">>
          \o LineMarker(<<"/","i","/">> \o HeaderB)
          \o LineMarker(<<"/","i","/">> \o HeaderA) }

ConfA == [found |-> TRUE, custom |-> FALSE, includePath |-> <<"inc">>,
          compileOptions |-> <<"-g", "-O2">>, preprocessor |-> <<"DEBUG">>]
ConfB == [found |-> TRUE, custom |-> FALSE, includePath |-> <<>>,
          compileOptions |-> <<>>, preprocessor |-> <<"NDEBUG">>]
Confs == {NoConf, ConfA, ConfB}

\* what one call of DoRunCommand reads from its environment:
\*   outcome   "wsClosed": ManagerST::Get()->IsWorkspaceOpen() is false;
\*             "writeFail": WriteFileLatin1 fails; "launchFail":
\*             CreateAsyncProcess returns NULL; "ok": none of these
\*   conf      the build configuration of the editor's project
\*   text      the editor's text up to the cursor
\* Where a field is not read (no text is read when the workspace is closed,
\* nothing is written or launched for an empty text) it has one value only.
RunInputs ==
    {in \in [outcome : {"ok", "wsClosed", "writeFail", "launchFail"},
              conf : Confs, text : Buffers] :
        /\ in.outcome = "wsClosed" => in.conf = NoConf /\ in.text = TextEmpty
        /\ in.text = TextEmpty => in.outcome \in {"ok", "wsClosed"}}

\* the input of a call of DoRunCommand that reads nothing
NoInput == [outcome |-> "wsClosed", conf |-> NoConf, text |-> TextEmpty]

\* The text functions of the handlers, tabulated over the texts the model
\* draws from, so that each is computed once.
StripIncludes == [text \in Buffers |-> DoRemoveAllIncludeStatements(text, <<>>)]

RemovedLists == {StripIncludes[text].includesRemoved : text \in Buffers}

FilterWord ==
    [text \in Buffers \cup {StripIncludes[t].buffer : t \in Buffers} |->
        IF text = <<>> THEN [currentBuffer |-> <<>>, filterWord |-> <<>>]
        ELSE FilterWordLoop(text, <<>>)]

LineStartPos == [text \in Buffers |-> PosFromCurrentLine(text)]

FilterPP ==
    [content \in PPOutputs, editor \in Editors, removed \in RemovedLists |->
        DoFilterIncludeFilesFromPP(content, FileOf(editor), removed)]

\* ------------------------------------------------------------------ state
VARIABLES
    m_process,           \* the process handle: NULL or a process number
    m_commandType,       \* the stage
    m_output,            \* the accumulated output, a sequence of chunks
    m_activationEditor,  \* NULL or an editor
    m_activationPos,     \* wxNOT_FOUND or a position
    m_pchHeaders,        \* wxArrayString
    m_removedIncludes,   \* wxArrayString
    m_compilationArgs,   \* <<>> is the empty string
    m_cache,             \* ClangPCHCache: file |-> entry
    queue,               \* the pending events of the event loop, oldest first
    procs,               \* the processes whose handle exists, by number
    launches,            \* the number of processes launched so far
    parsed,              \* history: every call of DoParseOutput
    pipeline,            \* history: the number of accepted requests
    stages,              \* history: the stages launched in this pipeline
    request,             \* history: what the request just accepted saw
    event,               \* history: the event just handled
    aborted,             \* history: the pipelines Abort() was called on
    lastOp,              \* history: the handler that ran last
    run,                 \* history: what the last call of DoRunCommand did
    pchFiles,            \* the PCH files of the cache directory: path |-> built for
    prepared,            \* history: what the request in hand stripped and wrote
    applied              \* the text function applied last, what it was given and gave

vars == <<m_process, m_commandType, m_output, m_activationEditor,
          m_activationPos, m_pchHeaders, m_removedIncludes,
          m_compilationArgs, m_cache, queue, procs, launches, parsed,
          pipeline, stages, request, event, aborted, lastOp, run, pchFiles,
          prepared, applied>>

\* the cache directory with no PCH file in it: the empty name for a path is
\* no file
NoPchFiles ==
    [path \in {DoGetPchOutputFileName(f) : f \in Files} |-> <<>>]

\* PCH_CMD run to a successful end: the process of the CreatePCH stage has
\* written $PCH_FILE, the PCH of the umbrella header of its editor's file
WritePCH(files, proc, result) ==
    IF proc.type = CT_CreatePCH /\ result = "ok"
    THEN [files EXCEPT ![DoGetPchOutputFileName(FileOf(proc.editor))] =
                           FileOf(proc.editor)]
    ELSE files

\* what DoRunCommand did: the stage it was called for and how it ended
NoRun == [type |-> "none", outcome |-> "none"]

Ran(type, outcome) == [type |-> type, outcome |-> outcome]

\* What the request whose activation context the driver holds has prepared
\* for its PCH: the includes stripped when its PreProcess process was
\* launched, and the headers written into its umbrella header.
NotPrepared == [stripped |-> FALSE, includes |-> <<>>,
                written |-> FALSE, headers |-> <<>>]

\* no text function applied
NotApplied == [op |-> "none"]

\* the driver's members and what its handlers write, as one value
State ==
    [m_process |-> m_process, m_commandType |-> m_commandType,
     m_output |-> m_output, m_activationEditor |-> m_activationEditor,
     m_activationPos |-> m_activationPos, m_pchHeaders |-> m_pchHeaders,
     m_removedIncludes |-> m_removedIncludes,
     m_compilationArgs |-> m_compilationArgs, m_cache |-> m_cache,
     procs |-> procs, launches |-> launches, parsed |-> parsed,
     pipeline |-> pipeline, stages |-> stages, run |-> run,
     prepared |-> prepared]

\* the handler leaves the driver in state s
Becomes(s) ==
    /\ m_process' = s.m_process
    /\ m_commandType' = s.m_commandType
    /\ m_output' = s.m_output
    /\ m_activationEditor' = s.m_activationEditor
    /\ m_activationPos' = s.m_activationPos
    /\ m_pchHeaders' = s.m_pchHeaders
    /\ m_removedIncludes' = s.m_removedIncludes
    /\ m_compilationArgs' = s.m_compilationArgs
    /\ m_cache' = s.m_cache
    /\ procs' = s.procs
    /\ launches' = s.launches
    /\ parsed' = s.parsed
    /\ pipeline' = s.pipeline
    /\ stages' = s.stages
    /\ run' = s.run
    /\ prepared' = s.prepared

NoRequest == [pipe |-> 0]
NoEvent   == [kind |-> "none"]
NoProcs   == [pid \in {} |-> {}]

\* ClangDriver::ClangDriver()
Init ==
    /\ m_process = NULL
    /\ m_commandType = CT_PreProcess
    /\ m_output = <<>>
    /\ m_activationEditor = NULL
    /\ m_activationPos = wxNOT_FOUND
    /\ m_pchHeaders = <<>>
    /\ m_removedIncludes = <<>>
    /\ m_compilationArgs = <<>>
    /\ m_cache = [f \in Files |-> NoEntry]
    /\ queue = <<>>
    /\ procs = NoProcs
    /\ launches = 0
    /\ parsed = <<>>
    /\ pipeline = 0
    /\ stages = <<>>
    /\ request = NoRequest
    /\ event = NoEvent
    /\ aborted = {}
    /\ lastOp = "Init"
    /\ run = NoRun
    /\ pchFiles = NoPchFiles
    /\ prepared = NotPrepared
    /\ applied = NotApplied

\* ----------------------------------------------------------- the handlers
\* "delete m_process": the handle is gone and the process killed; the events
\* it has posted stay in the queue
DeleteProcess(ps, pid) == [p \in DOMAIN ps \ {pid} |-> ps[p]]

\* ClangDriver::DoCleanup
DoCleanup(s) ==
    [s EXCEPT !.procs = IF s.m_process # NULL
                        THEN DeleteProcess(@, s.m_process) ELSE @,
              !.m_process = NULL,
              !.m_commandType = CT_PreProcess,
              !.m_output = <<>>]

\* ~ClangDriverCleaner (clang_driver.h): DoCleanup() unless Clear() was called
ClangDriverCleaner(s) == DoCleanup(s)

\* CreateAsyncProcess: the new process gets the next number.  The record is
\* the process (exit, sent) and, as history, the command it was launched
\* with: the stage, the editor, $ARGS, the pipeline, and the stage of the
\* process whose termination event made the driver launch it ("request" for
\* a launch by CodeCompletion).
CreateAsyncProcess(s, editor, type, cause) ==
    [s EXCEPT !.m_process = s.launches + 1,
              !.launches = @ + 1,
              !.stages = Append(@, type),
              !.procs = [p \in DOMAIN @ \cup {s.launches + 1} |->
                           IF p \in DOMAIN @ THEN @[p]
                           ELSE [type |-> type, editor |-> editor,
                                 args |-> s.m_compilationArgs,
                                 pipe |-> s.pipeline, cause |-> cause,
                                 exit |-> "none", sent |-> 0]]]

\* ClangDriver::DoRunCommand
DoRunCommand(s, editor, type, in, cause) ==
    IF editor = NULL \/ in.outcome = "wsClosed"
    THEN [s EXCEPT !.run = Ran(type, "notRun")]
    ELSE
    LET s1 == [s EXCEPT !.m_commandType = type,
                        !.m_compilationArgs = DoPrepareCompilationArgs(@, in.conf)]
    IN  IF in.text = <<>>
        THEN [ClangDriverCleaner(s1) EXCEPT !.run = Ran(type, "emptyBuffer")]
        ELSE
        LET stripped == IF type = CT_PreProcess
                        THEN StripIncludes[in.text]
                        ELSE [buffer |-> in.text,
                              includesRemoved |-> s1.m_removedIncludes]
            s2 == [s1 EXCEPT !.m_removedIncludes = stripped.includesRemoved]
            walked == FilterWord[stripped.buffer]
            loc == LocationOf(in.text, LineStartPos[in.text], walked.filterWord)
            launched == in.outcome # "launchFail" /\ s.launches < MaxLaunches
        IN  IF type = CT_CodeCompletion /\ in.outcome = "writeFail"
            THEN [ClangDriverCleaner(s2) EXCEPT !.run = Ran(type, "writeFail")]
            ELSE IF ~launched
            THEN [ClangDriverCleaner(s2) EXCEPT !.run = Ran(type, "launchFail")]
            ELSE [CreateAsyncProcess(s2, editor, type, cause)
                    EXCEPT !.m_activationEditor = editor,
                           !.m_activationPos = loc.pos,
                           !.run = Ran(type, "launched"),
                           !.prepared =
                               IF type = CT_PreProcess
                               THEN [@ EXCEPT !.stripped = TRUE,
                                              !.includes = s2.m_removedIncludes]
                               ELSE @]

\* the busy check left out
IsBusy_Never(s) == FALSE

\* CodeCompletion, "if(m_process)": another command is running
IsBusy(s) == s.m_process # NULL

\* the cache entry used whenever it is valid
StartStage_IgnoreRegen(isValid, needRegen) ==
    IF isValid THEN CT_CodeCompletion ELSE CT_PreProcess

\* CodeCompletion, the stage the request starts in
StartStage(isValid, needRegen) ==
    IF isValid /\ ~needRegen THEN CT_CodeCompletion ELSE CT_PreProcess

\* ClangDriver::CodeCompletion(editor); enabled is CC_CLANG_ENABLED
CodeCompletion(editor, enabled, in) ==
    LET s0 == [State EXCEPT !.m_compilationArgs = <<>>]
    IN  /\ UNCHANGED <<queue, aborted>>
        /\ lastOp' = "CodeCompletion"
        /\ UNCHANGED <<applied, pchFiles>>
        /\ event' = NoEvent
        /\ IF editor = NULL
           THEN Becomes(s0) /\ request' = NoRequest
           ELSE IF IsBusy(s0)
           THEN Becomes(s0) /\ request' = NoRequest
           ELSE IF ~enabled
           THEN Becomes(DoCleanup(s0)) /\ request' = NoRequest
           ELSE
           LET s1 == [DoCleanup(s0) EXCEPT !.pipeline = @ + 1, !.stages = <<>>,
                                           !.prepared = NotPrepared]
               entry == GetPCH(s1.m_cache, FileOf(editor))
               removedIncludes == StripIncludes[in.text].includesRemoved
               type == StartStage(IsValid(entry),
                                  NeedRegenration(entry, removedIncludes))
           IN  /\ pipeline < MaxPipelines
               /\ Becomes(DoRunCommand(s1, editor, type, in, "request"))
               /\ request' = [pipe |-> s1.pipeline, editor |-> editor,
                              includes |-> removedIncludes, conf |-> in.conf]

\* ClangDriver::OnClangProcessOutput, for the oldest pending event
OnClangProcessOutput ==
    /\ queue # <<>>
    /\ Head(queue).kind = "data"
    /\ m_output' = Append(m_output, Head(queue).data)
    /\ queue' = Tail(queue)
    /\ lastOp' = "OnClangProcessOutput"
    /\ UNCHANGED <<run, prepared>>
    /\ UNCHANGED <<applied, pchFiles>>
    /\ request' = NoRequest
    /\ event' = Head(queue)
    /\ UNCHANGED <<m_process, m_commandType, m_activationEditor,
                   m_activationPos, m_pchHeaders, m_removedIncludes,
                   m_compilationArgs, m_cache, procs, launches, parsed,
                   pipeline, stages, aborted>>

\* the next stage launched without DoCleanup()
OnPreProcessingCompleted_NoCleanup(s, content, in, ev) ==
    IF s.m_activationEditor = NULL THEN DoCleanup(s)
    ELSE DoRunCommand(s, s.m_activationEditor, CT_CreatePCH, in, ev.type)

\* ClangDriver::OnPreProcessingCompleted; content is what the preprocessor
\* left in its output file, ev the event
OnPreProcessingCompleted(s, content, in, ev) ==
    IF s.m_activationEditor = NULL THEN DoCleanup(s)
    ELSE LET s1 == [s EXCEPT !.m_pchHeaders =
                        FilterPP[content, s.m_activationEditor, s.m_removedIncludes],
                             !.prepared =
                        [@ EXCEPT !.written = TRUE,
                                  !.headers = FilterPP[content, s.m_activationEditor,
                                                       s.m_removedIncludes]]]
         IN  DoRunCommand(DoCleanup(s1), s1.m_activationEditor, CT_CreatePCH,
                          in, ev.type)

\* ClangDriver::OnPCHCreationCompleted
OnPCHCreationCompleted(s, in, ev) ==
    LET filename == FileOf(s.m_activationEditor)
        s1 == IF s.m_activationEditor # NULL
              THEN [s EXCEPT !.m_cache =
                       AddPCH(@, filename, DoGetPchOutputFileName(filename),
                              s.m_removedIncludes, s.m_pchHeaders,
                              [type |-> ev.type, result |-> ev.result])]
              ELSE s
        s2 == [s1 EXCEPT !.m_pchHeaders = <<>>]
    IN  DoRunCommand(DoCleanup(s2), s2.m_activationEditor, CT_CodeCompletion,
                     in, ev.type)

\* ClangCodeCompletion::DoParseOutput(output): the hand-off, recorded with
\* the pipeline and the process it is made for: proc is the process the
\* driver held, ev the event that caused the hand-off
DoParseOutput(s, output, pid, proc, ev) ==
    [s EXCEPT !.parsed = Append(@, [pipe |-> s.pipeline, pid |-> pid,
                                    text |-> output, sent |-> proc.sent,
                                    event |-> ev.pid, evpipe |-> ev.pipe])]

\* ClangDriver::OnCodeCompletionCompleted
OnCodeCompletionCompleted(s, ev) ==
    LET output == s.m_output
    IN  DoParseOutput(DoCleanup(s), output, s.m_process, s.procs[s.m_process], ev)

\* ClangDriver::OnClangProcessTerminated in the stage CT_PreProcess
TerminatedPreProcess(content, in) ==
    /\ queue # <<>>
    /\ Head(queue).kind = "term"
    /\ m_commandType = CT_PreProcess
    /\ queue' = Tail(queue)
    /\ Becomes(OnPreProcessingCompleted(State, content, in, Head(queue)))
    /\ lastOp' = "OnPreProcessingCompleted"
    /\ UNCHANGED <<applied, pchFiles>>
    /\ request' = NoRequest
    /\ event' = Head(queue)
    /\ UNCHANGED aborted

\* ClangDriver::OnClangProcessTerminated in the stage CT_CreatePCH
TerminatedCreatePCH(in) ==
    /\ queue # <<>>
    /\ Head(queue).kind = "term"
    /\ m_commandType = CT_CreatePCH
    /\ queue' = Tail(queue)
    /\ Becomes(OnPCHCreationCompleted(State, in, Head(queue)))
    /\ lastOp' = "OnPCHCreationCompleted"
    /\ UNCHANGED <<applied, pchFiles>>
    /\ request' = NoRequest
    /\ event' = Head(queue)
    /\ UNCHANGED aborted

\* ClangDriver::OnClangProcessTerminated in the stage CT_CodeCompletion
TerminatedCodeCompletion ==
    /\ queue # <<>>
    /\ Head(queue).kind = "term"
    /\ m_commandType = CT_CodeCompletion
    /\ queue' = Tail(queue)
    /\ Becomes(OnCodeCompletionCompleted(State, Head(queue)))
    /\ lastOp' = "OnCodeCompletionCompleted"
    /\ UNCHANGED <<applied, pchFiles>>
    /\ request' = NoRequest
    /\ event' = Head(queue)
    /\ UNCHANGED aborted

\* Abort() that leaves the activation context as it is
Abort_KeepsContext ==
    /\ Becomes(DoCleanup([State EXCEPT !.m_pchHeaders = <<>>,
                                       !.m_removedIncludes = <<>>,
                                       !.prepared = NotPrepared]))
    /\ aborted' = IF m_process # NULL THEN aborted \cup {pipeline} ELSE aborted
    /\ lastOp' = "Abort"
    /\ UNCHANGED <<applied, pchFiles>>
    /\ request' = NoRequest
    /\ event' = NoEvent
    /\ UNCHANGED queue

\* ClangDriver::Abort
Abort ==
    /\ Becomes(DoCleanup([State EXCEPT !.m_activationEditor = NULL,
                                       !.m_activationPos = wxNOT_FOUND,
                                       !.m_pchHeaders = <<>>,
                                       !.m_removedIncludes = <<>>,
                                       !.prepared = NotPrepared]))
    /\ aborted' = IF m_process # NULL THEN aborted \cup {pipeline} ELSE aborted
    /\ lastOp' = "Abort"
    /\ UNCHANGED <<applied, pchFiles>>
    /\ request' = NoRequest
    /\ event' = NoEvent
    /\ UNCHANGED queue

\* ------------------------------------------------- the external processes
\* a running process writes a chunk: its reader thread posts
\* wxEVT_PROC_DATA_READ.  A chunk is <<process, number>>.
ProcessOutput(pid) ==
    /\ procs[pid].exit = "none"
    /\ procs[pid].sent < MaxChunks
    /\ Len(queue) < MaxQueue
    /\ queue' = Append(queue, [kind |-> "data", pid |-> pid,
                               pipe |-> procs[pid].pipe,
                               data |-> <<pid, procs[pid].sent + 1>>])
    /\ procs' = [procs EXCEPT ![pid].sent = @ + 1]
    /\ lastOp' = "Process"
    /\ UNCHANGED <<run, prepared>>
    /\ UNCHANGED <<applied, pchFiles>>
    /\ request' = NoRequest
    /\ event' = NoEvent
    /\ UNCHANGED <<m_process, m_commandType, m_output, m_activationEditor,
                   m_activationPos, m_pchHeaders, m_removedIncludes,
                   m_compilationArgs, m_cache, launches, parsed, pipeline,
                   stages, aborted>>

\* a running process exits, with success or failure: its reader thread
\* posts wxEVT_PROC_TERMINATED.  The stage, the pipeline and the result of
\* the process are history: the driver reads nothing from the event.
ProcessExit(pid, result) ==
    /\ procs[pid].exit = "none"
    /\ Len(queue) < MaxQueue
    /\ queue' = Append(queue, [kind |-> "term", pid |-> pid,
                               type |-> procs[pid].type,
                               pipe |-> procs[pid].pipe, result |-> result])
    /\ procs' = [procs EXCEPT ![pid].exit = result]
    /\ pchFiles' = WritePCH(pchFiles, procs[pid], result)
    /\ lastOp' = "Process"
    /\ UNCHANGED <<run, prepared>>
    /\ UNCHANGED applied
    /\ request' = NoRequest
    /\ event' = NoEvent
    /\ UNCHANGED <<m_process, m_commandType, m_output, m_activationEditor,
                   m_activationPos, m_pchHeaders, m_removedIncludes,
                   m_compilationArgs, m_cache, launches, parsed, pipeline,
                   stages, aborted>>

\* the results a process of a stage exits with: the build of the PCH
\* succeeds or fails; of the other stages the model follows one result, as
\* nothing in the driver or in the properties reads it
ExitResults(type) == IF type = CT_CreatePCH THEN {"ok", "fail"} ELSE {"ok"}

\* ------------------------------------------------------ the specification
\* CodeCompletion called without an editor, with the option switched off, or
\* while a process is held: DoRunCommand is not reached
RequestDropped ==
    \E editor \in Editors \cup {NULL}, enabled \in BOOLEAN :
        /\ editor = NULL \/ ~enabled \/ m_process # NULL
        /\ CodeCompletion(editor, enabled, NoInput)

\* CodeCompletion called with an editor and the option on, no process held
Request ==
    \E editor \in Editors, in \in RunInputs :
        /\ m_process = NULL
        /\ CodeCompletion(editor, TRUE, in)

Next ==
    \/ RequestDropped
    \/ Request
    \/ OnClangProcessOutput
    \/ \E content \in PPOutputs, in \in RunInputs : TerminatedPreProcess(content, in)
    \/ \E in \in RunInputs : TerminatedCreatePCH(in)
    \/ TerminatedCodeCompletion
    \/ Abort
    \/ \E pid \in DOMAIN procs : ProcessOutput(pid)
    \/ \E pid \in DOMAIN procs :
           \E result \in ExitResults(procs[pid].type) : ProcessExit(pid, result)

Spec == Init /\ [][Next]_vars

\* ------------------------------------------------------------ properties
\* C1: a call of CodeCompletion while a process is held is a no-op: it
\* launches no process and leaves the stage, the process handle, the
\* accumulated output, the activation context and the removed-include and
\* header sets as they were.
C1_BusyRequestIsNoOp ==
    [][ (m_process # NULL /\ lastOp' = "CodeCompletion")
        => UNCHANGED <<m_process, m_commandType, m_output, m_activationEditor,
                       m_activationPos, m_removedIncludes, m_pchHeaders,
                       procs, launches, queue>> ]_vars

\* a request was made, and dropped, in the stage CT_CreatePCH
C1_Witness ==
    /\ lastOp = "CodeCompletion"
    /\ request = NoRequest
    /\ m_process # NULL
    /\ m_commandType = CT_CreatePCH

\* C2: at most one process is outstanding: the only process whose handle
\* exists is the one m_process holds, so DoRunCommand never launches a
\* process while a handle is held.
C2_OneProcess ==
    /\ Cardinality(DOMAIN procs) <= 1
    /\ DOMAIN procs = IF m_process = NULL THEN {} ELSE {m_process}

\* a process is held after an abort and a later launch
C2_Witness ==
    /\ aborted # {}
    /\ launches >= 2
    /\ m_process # NULL

\* the cache holds a valid entry for file whose recorded removed includes
\* are, as a set, the includes
CacheHit(file, includes) ==
    /\ m_cache[file].valid
    /\ \A x \in Range(includes) : x \in Range(m_cache[file].includes)
    /\ \A x \in Range(m_cache[file].includes) : x \in Range(includes)

\* C3: the process an accepted request launches is a CodeCompletion process
\* if and only if the cache holds a valid entry for the file whose removed
\* includes equal, as a set, the includes stripped from the buffer; it is a
\* PreProcess process otherwise.
C3_StartStage ==
    (request # NoRequest /\ m_process # NULL) =>
        LET hit == CacheHit(FileOf(request.editor), request.includes)
        IN  /\ procs[m_process].cause = "request"
            /\ procs[m_process].type =
                   IF hit THEN CT_CodeCompletion ELSE CT_PreProcess

\* a request started in the stage CodeCompletion on an entry that records the
\* same includes in another order
C3_Witness ==
    /\ request # NoRequest
    /\ m_process # NULL
    /\ procs[m_process].type = CT_CodeCompletion
    /\ m_cache[FileOf(request.editor)].includes # request.includes

\* a request started in the stage PreProcess although a valid entry exists
C3_WitnessRegen ==
    /\ request # NoRequest
    /\ m_process # NULL
    /\ procs[m_process].type = CT_PreProcess
    /\ m_cache[FileOf(request.editor)].valid

\* C4: on the cache-miss path the stages run in the order PreProcess,
\* CreatePCH, CodeCompletion: a CreatePCH process is launched only for the
\* termination of a PreProcess process, a CodeCompletion process (when not
\* launched by the request itself) only for the termination of a CreatePCH
\* process and with the cache updated, and no stage of a pipeline is skipped
\* or run twice.
C4_StagesInOrder ==
    /\ \A p \in DOMAIN procs :
         /\ procs[p].type = CT_PreProcess => procs[p].cause = "request"
         /\ procs[p].type = CT_CreatePCH => procs[p].cause = CT_PreProcess
         /\ procs[p].type = CT_CodeCompletion =>
              \/ procs[p].cause = "request"
              \/ /\ procs[p].cause = CT_CreatePCH
                 /\ m_cache[FileOf(procs[p].editor)].valid
    /\ stages \in { <<>>, <<CT_CodeCompletion>>, <<CT_PreProcess>>,
                    <<CT_PreProcess, CT_CreatePCH>>,
                    <<CT_PreProcess, CT_CreatePCH, CT_CodeCompletion>> }

\* C5: the hand-off to DoParseOutput happens exactly once for every pipeline
\* whose CodeCompletion process terminates, and never for a pipeline Abort()
\* was called on: no hand-off is made in, or for an event of, an aborted
\* pipeline, whatever events are delivered after the abort.
C5_HandOffOnce ==
    /\ \A i \in 1..Len(parsed) :
         parsed[i].pipe \notin aborted /\ parsed[i].evpipe \notin aborted
    /\ \A i, j \in 1..Len(parsed) : i # j => parsed[i].pipe # parsed[j].pipe
    /\ ( /\ event.kind = "term"
         /\ event.type = CT_CodeCompletion
         /\ event.pipe \notin aborted )
       => \E i \in 1..Len(parsed) :
            parsed[i].pipe = event.pipe /\ parsed[i].pid = event.pid

\* the chunks 1..n of process pid, in the order they were written
Chunks(pid, n) == [k \in 1..n |-> <<pid, k>>]

\* C6: the text handed to the parser is the concatenation, in delivery order,
\* of the chunks of the CodeCompletion process of that pipeline, no chunk of
\* another process in it and none lost.
C6_ParsedText ==
    \A i \in 1..Len(parsed) :
        parsed[i].text = Chunks(parsed[i].pid, parsed[i].sent)

\* the members Abort() resets
C7_Clean ==
    /\ m_process = NULL
    /\ procs = NoProcs
    /\ m_commandType = CT_PreProcess
    /\ m_activationEditor = NULL
    /\ m_activationPos = wxNOT_FOUND
    /\ m_pchHeaders = <<>>
    /\ m_removedIncludes = <<>>

\* C7: Abort() in any state leaves the driver idle with no process handle, a
\* cleared activation context and empty header and removed-include sets; a
\* second Abort() changes nothing.
C7_AbortResets ==
    /\ [](lastOp = "Abort" => C7_Clean)
    /\ [][ (lastOp = "Abort" /\ lastOp' = "Abort")
           => UNCHANGED <<m_process, procs, m_commandType, m_output,
                          m_activationEditor, m_activationPos, m_pchHeaders,
                          m_removedIncludes, m_compilationArgs, m_cache,
                          queue, launches, parsed>> ]_vars

\* Abort() was called on a pipeline with a process outstanding
C7_Witness ==
    /\ lastOp = "Abort"
    /\ aborted # {}
    /\ queue # <<>>

\* C8: a cache entry is created or overwritten only when the CreatePCH stage
\* built the PCH: every entry was written for the termination of a process
\* that exited with success.
C8_CacheOnSuccessOnly ==
    \A f \in Files : m_cache[f].valid => m_cache[f].by.result = "ok"

\* C9: within one pipeline the compilation arguments, once non-empty, are
\* neither cleared nor recomputed while a process of the pipeline is held.
C9_ArgsKept ==
    [][ ( /\ m_process # NULL /\ m_process' # NULL
          /\ pipeline' = pipeline
          /\ m_compilationArgs # <<>> )
        => m_compilationArgs' = m_compilationArgs ]_vars

\* C10: the activation context is cleared whenever a pipeline ends, by the
\* completion of the CodeCompletion stage or by Abort().
C10_ActivationCleared ==
    lastOp \in {"OnCodeCompletionCompleted", "Abort"} =>
        /\ m_activationEditor = NULL
        /\ m_activationPos = wxNOT_FOUND

\* the ways DoRunCommand gives up after it has set the stage
StartFailures == {"emptyBuffer", "writeFail", "launchFail"}

\* C11: when DoRunCommand cannot start a stage (empty buffer, failed write of
\* the temporary file, failed launch) no process is held afterwards and the
\* driver is idle; for the empty buffer no process is launched; and no stage
\* is launched after that except by a new call of CodeCompletion.
C11_FailedStartIsIdle ==
    /\ [](run.outcome \in StartFailures
          => m_process = NULL /\ procs = NoProcs
             /\ m_commandType = CT_PreProcess)
    /\ [][ run'.outcome = "emptyBuffer" => launches' = launches ]_vars
    /\ [][ run.outcome \in StartFailures /\ launches' # launches
           => request' # NoRequest ]_vars

\* C12: a request whose project has no usable build configuration (no build
\* matrix, project not found, no configuration, custom build) is abandoned:
\* no process is launched for it and the driver stays idle.
C12_NoConfAbandons ==
    (request # NoRequest /\ (~request.conf.found \/ request.conf.custom))
        => m_process = NULL /\ run.outcome # "launched"

\* ------------------------------------------------- the text functions alone
\* the members of the driver and the history of its handlers
driverVars == <<m_process, m_commandType, m_output, m_activationEditor,
                m_activationPos, m_pchHeaders, m_removedIncludes,
                m_compilationArgs, m_cache, queue, procs, launches, parsed,
                pipeline, stages, request, event, aborted, lastOp, run,
                pchFiles, prepared>>

\* pieces of editor text: include directives in the forms the pattern
\* accepts, a directive that is not an include, code, a line break
TextPieces ==
    { <<"#","i","n","c","l","u","d","e"," ","<","a",">">>,
      <<" ","#"," ","i","n","c","l","u","d","e"," ","\"","b","\"">>,
      <<"#","d","e","f","i","n","e">>,
      <<"x">>,
      <<"\n">> }

\* the editor texts DoRemoveAllIncludeStatements is applied to: up to
\* MaxPieces pieces, and a text of MaxScanLines + 1 lines without an include
MaxPieces == 3

PieceTexts ==
    UNION {{ConcatRange(ps, 1, n) : ps \in [1..n -> TextPieces]} : n \in 1..MaxPieces}

LongText == [i \in 1..(MaxScanLines + 1) |-> IF i <= MaxScanLines THEN "\n" ELSE "x"]

StripTexts == PieceTexts \cup {LongText}

\* DoRemoveAllIncludeStatements(buffer, includesRemoved) called with an empty
\* includesRemoved, and called again on the buffer it left
ApplyStrip(buffer) ==
    /\ applied = NotApplied
    /\ applied' = [op |-> "DoRemoveAllIncludeStatements", buffer |-> buffer,
                   out |-> DoRemoveAllIncludeStatements(buffer, <<>>),
                   again |-> DoRemoveAllIncludeStatements(
                       DoRemoveAllIncludeStatements(buffer, <<>>).buffer, <<>>)]
    /\ UNCHANGED driverVars

\* C13: DoRemoveAllIncludeStatements keeps everything that is not an include
\* directive: the buffer it leaves is the lines of the buffer it was given,
\* in order, a line among the first MaxScanLines that matches the pattern
\* without its directive and every other line as it was; and a buffer with
\* no matching line comes back unchanged with nothing reported as removed.
C13_KeepsOtherContent ==
    applied.op = "DoRemoveAllIncludeStatements" =>
        LET lines == TokenizeRetDelims(applied.buffer)
            kept  == [i \in 1..Len(lines) |->
                        IF i <= MaxScanLines
                        THEN StripLine(lines[i], IncludeMatch(lines[i])).buffer
                        ELSE lines[i]]
        IN  /\ applied.out.buffer = ConcatRange(kept, 1, Len(kept))
            /\ (\A i \in 1..Len(lines) :
                    StripLine(lines[i], IncludeMatch(lines[i])).removed = <<>>)
               => /\ applied.out.buffer = applied.buffer
                  /\ applied.out.includesRemoved = <<>>

\* C14: DoRemoveAllIncludeStatements applied to the buffer it left returns
\* that buffer unchanged and reports nothing as removed.
C14_StripIdempotent ==
    applied.op = "DoRemoveAllIncludeStatements" =>
        /\ applied.again.buffer = applied.out.buffer
        /\ applied.again.includesRemoved = <<>>

\* the lines of a preprocessor output file: the line markers of the two
\* files of the editors and of two headers, and a line of code
PPLines ==
    { LineMarker(FileOf(1)), LineMarker(FileOf(2)),
      LineMarker(<<"/","i","/">> \o HeaderA),
      LineMarker(<<"/","i","/">> \o HeaderB),
      <<"i","n","t"," ","x",";","\n">> }

\* the preprocessor outputs DoFilterIncludeFilesFromPP is applied to: up to
\* MaxMarkers lines
MaxMarkers == 3

PPContents ==
    UNION {{ConcatRange(ls, 1, n) : ls \in [1..n -> PPLines]} : n \in 1..MaxMarkers}

\* m_removedIncludes when DoFilterIncludeFilesFromPP is called: one header,
\* the other, both, and the header of the second editor
PPRemoved ==
    { <<HeaderA>>, <<HeaderB>>, <<HeaderA, HeaderB>>, <<GetFullName(FileOf(2))>> }

\* DoFilterIncludeFilesFromPP() for the activation editor "editor", with
\* "content" in the preprocessor output file and "removed" in
\* m_removedIncludes; out is m_pchHeaders, which is what the umbrella header
\* includes
ApplyFilterPP(content, editor, removed) ==
    /\ applied = NotApplied
    /\ applied' = [op |-> "DoFilterIncludeFilesFromPP", content |-> content,
                   filename |-> FileOf(editor), removed |-> removed,
                   out |-> DoFilterIncludeFilesFromPP(content, FileOf(editor),
                                                      removed)]
    /\ UNCHANGED driverVars

\* the normalized paths of the line markers among lines, in their order
RECURSIVE MarkerPaths(_, _)
MarkerPaths(lines, basedir) ==
    IF lines = <<>> THEN <<>>
    ELSE (IF LineMarkerMatch(Trim(Head(lines))) # <<>>
          THEN <<Normalize(UnescapeBackslashes(LineMarkerMatch(Trim(Head(lines)))),
                           basedir)>>
          ELSE <<>>)
         \o MarkerPaths(Tail(lines), basedir)

\* the elements of paths at their first occurrence
FirstOccurrences(paths) ==
    LET first == {i \in 1..Len(paths) : \A j \in 1..(i - 1) : paths[j] # paths[i]}
    IN  [k \in 1..Cardinality(first) |->
            paths[CHOOSE i \in first : Cardinality({j \in first : j < i}) = k - 1]]

\* C15: the headers of the umbrella header, which are the header set recorded
\* for the cache entry, are the paths of the line markers that end with one
\* of the removed includes, each once, in the order of first discovery, the
\* file of the request left out.
C15_UmbrellaHeaders ==
    applied.op = "DoFilterIncludeFilesFromPP" =>
        applied.out =
            SelectSeq(FirstOccurrences(MarkerPaths(TokenizeStrtok(applied.content),
                                                   GetPath(applied.filename))),
                      LAMBDA h : /\ ShouldInclude(h, applied.removed)
                                 /\ h # applied.filename)

\* the separators the loop of DoRunCommand looks for
Separators == { <<"-", ">">>, <<".">>, <<":", ":">> }

\* w holds one of the separators
HasSeparator(w) ==
    \E i \in 1..Len(w), j \in 1..Len(w) : SubSeq(w, i, j) \in Separators

\* the characters of the buffers the loop is applied to
WordChars == { "a", ".", ":", "-", ">" }

\* the buffers the loop is applied to: up to MaxWord characters
MaxWord == 4

WordTexts == UNION { [1..n -> WordChars] : n \in 1..MaxWord }

\* the filter-word loop of DoRunCommand for the text before the cursor
ApplyFilterWord(buffer) ==
    /\ applied = NotApplied
    /\ applied' = [op |-> "FilterWord", buffer |-> buffer,
                   out |-> FilterWordLoop(buffer, <<>>)]
    /\ UNCHANGED driverVars

\* the buffer is P + sep + W with P its first p characters
SplitsAt(buffer, p, sep) ==
    /\ p + Len(sep) <= Len(buffer)
    /\ SubSeq(buffer, p + 1, p + Len(sep)) = sep

\* the loop left P + sep in the buffer and W in the filter word
YieldsAt(buffer, p, sep, out) ==
    /\ out.currentBuffer = SubSeq(buffer, 1, p + Len(sep))
    /\ out.filterWord = SubSeq(buffer, p + Len(sep) + 1, Len(buffer))

\* C16 as stated: for every buffer P + sep + W with sep a separator and W
\* without a separator the loop yields filter word W and buffer P + sep; and
\* for every non-empty buffer the buffer left followed by the filter word is
\* the buffer given.
C16_FilterWord ==
    applied.op = "FilterWord" =>
        /\ \A p \in 0..Len(applied.buffer), sep \in Separators :
               ( /\ SplitsAt(applied.buffer, p, sep)
                 /\ ~HasSeparator(SubSeq(applied.buffer, p + Len(sep) + 1,
                                         Len(applied.buffer))) )
               => YieldsAt(applied.buffer, p, sep, applied.out)
        /\ applied.out.currentBuffer \o applied.out.filterWord = applied.buffer

\* C16 amended: the same for every buffer P + sep + W where W holds no
\* separator and, when sep is "::", does not begin with ":" (no separator
\* ends inside W).
C16_FilterWordAfterLastSeparator ==
    applied.op = "FilterWord" =>
        /\ \A p \in 0..Len(applied.buffer), sep \in Separators :
               ( /\ SplitsAt(applied.buffer, p, sep)
                 /\ ~HasSeparator(SubSeq(applied.buffer, p + Len(sep) + 1,
                                         Len(applied.buffer)))
                 /\ ~ ( /\ sep = <<":", ":">>
                        /\ p + Len(sep) < Len(applied.buffer)
                        /\ applied.buffer[p + Len(sep) + 1] = ":" ) )
               => YieldsAt(applied.buffer, p, sep, applied.out)
        /\ applied.out.currentBuffer \o applied.out.filterWord = applied.buffer

\* the loop was applied to "a->a" and to "a::a"-like buffers: a word after a
\* separator after a prefix
C16_Witness ==
    /\ applied.op = "FilterWord"
    /\ applied.buffer = <<"a", "-", ">", "a">>
    /\ applied.out.filterWord = <<"a">>
    /\ applied.out.currentBuffer = <<"a", "-", ">">>

\* C17: when the buffer holds no separator, the loop takes every character,
\* the first one included: the whole buffer is the filter word and the buffer
\* left is empty.
C17_WholeBufferIsFilterWord ==
    (applied.op = "FilterWord" /\ ~HasSeparator(applied.buffer)) =>
        /\ applied.out.filterWord = applied.buffer
        /\ applied.out.currentBuffer = <<>>

\* currentBuffer when the loop of DoRunCommand is entered: the text before
\* the cursor, in the PreProcess stage without its include directives
StageBuffer(type, text) ==
    IF type = CT_PreProcess
    THEN DoRemoveAllIncludeStatements(text, <<>>).buffer
    ELSE text

\* DoRunCommand(editor, type): line, column and activation position for the
\* cursor at the end of text
DoRunLocation(type, text) ==
    LocationOf(text, PosFromCurrentLine(text),
               FilterWordLoop(StageBuffer(type, text), <<>>).filterWord)

\* the texts before the cursor: up to MaxLoc characters of a word, a
\* separator and line breaks, and the buffers of the editors
MaxLoc == 3

LocTexts ==
    UNION { [1..n -> {"a", ".", "\n"}] : n \in 1..MaxLoc }
        \cup (Buffers \ {TextEmpty})

Stages == {CT_PreProcess, CT_CreatePCH, CT_CodeCompletion}

ApplyLocation(type, text) ==
    /\ applied = NotApplied
    /\ applied' = [op |-> "Location", type |-> type, text |-> text,
                   filterWord |-> FilterWordLoop(StageBuffer(type, text),
                                                 <<>>).filterWord,
                   out |-> DoRunLocation(type, text)]
    /\ UNCHANGED driverVars

\* C18: for a launch of any stage line is the cursor line + 1; in the
\* CodeCompletion stage column is cursor offset - line start offset + 1 less
\* the length of the filter word; in the PreProcess and CreatePCH stages
\* column is cursor offset - line start offset + 1, not reduced, and the
\* activation position line start + column - 1 is the cursor offset.
C18_ColumnReducedInCompletionOnly ==
    applied.op = "Location" =>
        LET raw == Len(applied.text) - PosFromCurrentLine(applied.text) + 1
        IN  /\ applied.out.line = GetCurrentLine(applied.text) + 1
            /\ applied.type = CT_CodeCompletion
                   => applied.out.column = raw - Len(applied.filterWord)
            /\ applied.type \in {CT_PreProcess, CT_CreatePCH}
                   => /\ applied.out.column = raw
                      /\ applied.out.pos = Len(applied.text)

\* the number of the process launched before a behaviour starts; launches
\* counts the processes launched in the behaviour
Earlier == -1

\* The driver after the first request was accepted, its PreProcess process
\* exited and Abort() was called before the event loop delivered the
\* termination event: the members as Abort() leaves them, the event pending.
AfterAbort ==
    /\ m_process = NULL
    /\ m_commandType = CT_PreProcess
    /\ m_output = <<>>
    /\ m_activationEditor = NULL
    /\ m_activationPos = wxNOT_FOUND
    /\ m_pchHeaders = <<>>
    /\ m_removedIncludes = <<>>
    /\ m_compilationArgs = <<>>
    /\ m_cache = [f \in Files |-> NoEntry]
    /\ queue = << [kind |-> "term", pid |-> Earlier, type |-> CT_PreProcess,
                   pipe |-> 1, result |-> "ok"] >>
    /\ procs = NoProcs
    /\ launches = 0
    /\ parsed = <<>>
    /\ pipeline = 1
    /\ stages = <<CT_PreProcess>>
    /\ request = NoRequest
    /\ event = NoEvent
    /\ aborted = {1}
    /\ lastOp = "Abort"
    /\ run = Ran(CT_PreProcess, "launched")
    /\ pchFiles = NoPchFiles
    /\ prepared = NotPrepared
    /\ applied = NotApplied

\* the event loop delivers the oldest pending event to its handler
Deliver ==
    \/ OnClangProcessOutput
    \/ \E content \in PPOutputs, in \in RunInputs : TerminatedPreProcess(content, in)
    \/ \E in \in RunInputs : TerminatedCreatePCH(in)
    \/ TerminatedCodeCompletion

\* a process exits
Exit ==
    \E pid \in DOMAIN procs :
        \E result \in ExitResults(procs[pid].type) : ProcessExit(pid, result)

\* The behaviours that follow an aborted request, every process exiting in
\* the end and the event loop delivering every pending event.
AfterAbortSpec ==
    AfterAbort /\ [][Next]_vars /\ WF_vars(Deliver) /\ WF_vars(Exit)

\* C19: when every process exits and every event is delivered, every accepted
\* request brings the driver back to holding no process after at most three
\* launches: no request has more than three processes launched for it.
C19_AtMostThreeLaunches == Len(stages) <= 3

\* The driver after a first request, for the file of editor 1 with TextA
\* before the cursor, went through its three stages: the cache holds the
\* entry of the file, the cache directory the PCH file built for it, and the
\* members are as OnCodeCompletionCompleted leaves them.  The histories of
\* the requests and launches start again.
AfterPipeline ==
    /\ m_process = NULL
    /\ m_commandType = CT_PreProcess
    /\ m_output = <<>>
    /\ m_activationEditor = 1
    /\ m_activationPos = LocationOf(TextA, LineStartPos[TextA],
                                    FilterWord[TextA].filterWord).pos
    /\ m_pchHeaders = <<>>
    /\ m_removedIncludes = StripIncludes[TextA].includesRemoved
    /\ m_compilationArgs = <<>>
    /\ m_cache = AddPCH([f \in Files |-> NoEntry], FileOf(1),
                        DoGetPchOutputFileName(FileOf(1)),
                        StripIncludes[TextA].includesRemoved, <<>>,
                        [result |-> "ok", type |-> CT_CreatePCH])
    /\ queue = <<>>
    /\ procs = NoProcs
    /\ launches = 0
    /\ parsed = <<>>
    /\ pipeline = 0
    /\ stages = <<>>
    /\ request = NoRequest
    /\ event = NoEvent
    /\ aborted = {}
    /\ lastOp = "OnCodeCompletionCompleted"
    /\ run = Ran(CT_CodeCompletion, "launched")
    /\ pchFiles = WritePCH(NoPchFiles, [type |-> CT_CreatePCH, editor |-> 1], "ok")
    /\ prepared = [stripped |-> TRUE,
                   includes |-> StripIncludes[TextA].includesRemoved,
                   written |-> TRUE, headers |-> <<>>]
    /\ applied = NotApplied

\* the behaviours that follow a completed request
AfterPipelineSpec == AfterPipeline /\ [][Next]_vars

\* C20: when a request takes the cache-hit path, the PCH file its completion
\* command names was built by the CreatePCH stage of a request for the same
\* file; stated here as what that excludes whatever else goes wrong: the
\* PCH file was not built for another file.
C20_PchOfTheSameFile ==
    ( /\ request # NoRequest
      /\ run.type = CT_CodeCompletion
      /\ run.outcome = "launched" )
    => pchFiles[DoGetPchOutputFileName(FileOf(request.editor))]
           \in {<<>>, FileOf(request.editor)}

\* the oldest pending event was posted by a process that Abort() destroyed,
\* and a process of a later request is held
StaleEventPending ==
    /\ queue # <<>>
    /\ Head(queue).pipe \in aborted
    /\ m_process # NULL
    /\ Head(queue).pid # m_process
    /\ procs[m_process].pipe # Head(queue).pipe

\* C21: the delivery of an output or termination event of a process that
\* Abort() destroyed, while a process of a later request is held, does not
\* touch the new pipeline: the stage, the process, the accumulated output,
\* the cache and the results handed off stay as they were and nothing is
\* launched.
C21_StaleEventIgnored ==
    [][ (StaleEventPending /\ event' = Head(queue))
        => UNCHANGED <<m_process, m_commandType, m_output, m_cache, parsed,
                       procs, launches>> ]_vars

\* C22: the cache entry written when the CreatePCH stage terminates records
\* the includes stripped when the PreProcess process of the same request was
\* launched and the headers written into the umbrella header of that
\* request; and a call of CodeCompletion that is dropped because a process is
\* held, and an output event, change neither set.
C22_EntryOfTheSameRequest ==
    /\ [][ (lastOp' = "OnPCHCreationCompleted" /\ m_activationEditor # NULL)
           => /\ prepared.stripped
              /\ m_cache'[FileOf(m_activationEditor)].includes = prepared.includes
              /\ prepared.written
              /\ m_cache'[FileOf(m_activationEditor)].headers = prepared.headers
         ]_vars
    /\ [][ ( \/ lastOp' = "OnClangProcessOutput"
             \/ lastOp' = "CodeCompletion" /\ m_process # NULL )
           => UNCHANGED <<m_removedIncludes, m_pchHeaders>> ]_vars

\* text function applied to one of the inputs
TextNext ==
    \/ \E type \in Stages, text \in LocTexts : ApplyLocation(type, text)
    \/ \E buffer \in WordTexts : ApplyFilterWord(buffer)
    \/ \E buffer \in StripTexts : ApplyStrip(buffer)
    \/ \E content \in PPContents, editor \in Editors, removed \in PPRemoved :
           ApplyFilterPP(content, editor, removed)

TextSpec == Init /\ [][TextNext]_vars

====
